---- MODULE Spec2Model ----
(***************************************************************************)
(* A model of packages/react-div-100vh/src/index.tsx: the measurement      *)
(* function measureViewportHeight, the hook useDynamicViewportHeight (with *)
(* useIsClientRendered) and the wrapper component DynamicViewportDiv,      *)
(* run by React 19 (package.json peerDependencies) in production mode of   *)
(* the reconciler: a render and its commit are one step, the passive       *)
(* effects of a commit (useEffect setup and cleanup) are a later step, and *)
(* a state update made with an updater function is either evaluated at the *)
(* dispatch (React's eager path, possible only when the hook has no update *)
(* waiting) or queued and evaluated by the next render.                    *)
(***************************************************************************)
EXTENDS Integers, Sequences, FiniteSets, TLC

\* ---------------------------------------------------------------- bounds
MaxHeight == 1        \* viewport heights are 0..MaxHeight pixels
MaxQueue == 2         \* height updates one instance can have waiting for a render
MaxQueueShared == 1   \* the same, where two instances run side by side
MaxCbChanges == 1     \* parent renders that hand an instance a new onHeightChange

Instances == {1, 2}
Heights == 0..MaxHeight
EventTypes == {"resize", "orientationchange"}

\* ------------------------------------------------------------ JS values
\* A JavaScript value of the kinds the code handles: number, string, boolean,
\* null, undefined. One record shape for all of them.
JsNum(n) == [type |-> "number", num |-> n, str |-> ""]
JsStr(s) == [type |-> "string", num |-> 0, str |-> s]
JsNull == [type |-> "null", num |-> 0, str |-> ""]
JsUndefined == [type |-> "undefined", num |-> 0, str |-> ""]
JsBool(b) == [type |-> "boolean", num |-> IF b THEN 1 ELSE 0, str |-> ""]

\* ToBoolean of a JS value: 0, "", null and undefined are falsy.
Truthy(v) ==
    CASE v.type = "number" -> v.num # 0
      [] v.type = "string" -> v.str # ""
      [] v.type = "boolean" -> v.num # 0
      [] OTHER -> FALSE

\* The template literal `${height}px`.
Px(h) == JsStr(ToString(h.num) \o "px")

\* ------------------------------------------------------ host environment
\* typeof window / typeof document / window.innerHeight / window.visualViewport.
\* visualViewport is JsUndefined (no such API) or the number it reports as height.
BrowserEnvs ==
    [hasWindow : {TRUE}, hasDocument : {TRUE},
     innerHeight : {JsNum(h) : h \in Heights},
     visualViewport : {JsUndefined} \cup {JsNum(h) : h \in Heights}]

ServerEnv ==
    [hasWindow |-> FALSE, hasDocument |-> FALSE,
     innerHeight |-> JsUndefined, visualViewport |-> JsUndefined]

\* Every combination the guards of isBrowserEnvironment distinguish.
AllEnvs ==
    [hasWindow : BOOLEAN, hasDocument : BOOLEAN,
     innerHeight : {JsUndefined, JsStr("600")} \cup {JsNum(h) : h \in Heights},
     visualViewport : {JsUndefined} \cup {JsNum(h) : h \in Heights}]

isBrowserEnvironment(e) ==
    /\ e.hasWindow
    /\ e.hasDocument
    /\ e.hasWindow /\ e.innerHeight.type = "number"

\* measureViewportHeight as it would be without the visualViewport branch.
measureInnerFirst(e) ==
    IF ~isBrowserEnvironment(e) THEN JsNull
    ELSE e.innerHeight

measureViewportHeight(e) ==
    IF ~isBrowserEnvironment(e) THEN JsNull
    ELSE IF e.visualViewport.type # "undefined" THEN e.visualViewport
    ELSE e.innerHeight

\* ------------------------------------------------------------ the inputs
\* onHeightChange references a parent can pass: none (undefined) or one of
\* two distinct functions.
NoCb == "undefined"
Callbacks == {"cbA", "cbB"}
CbProps == {NoCb} \cup Callbacks

\* The consumer's style: a property that is not given is JsUndefined (a
\* missing style object reads the same: style?.height is undefined and
\* {...undefined} adds nothing).
Styles ==
    { [height |-> JsUndefined, color |-> JsUndefined],
      [height |-> JsNum(0), color |-> JsStr("red")],
      [height |-> JsStr("50px"), color |-> JsStr("red")] }

\* The other attributes a consumer gives the div (...props of line 32): a
\* missing one is JsUndefined.
NoRest == [className |-> JsUndefined, id |-> JsUndefined]
Rests == {NoRest, [className |-> JsStr("full"), id |-> JsStr("app")]}

\* The props of DynamicViewportDiv: style, the rest, and the fields of options.
PropsSet ==
    [style : Styles,
     rest : Rests,
     suppressWarnings : {JsUndefined, JsBool(TRUE)},
     onHeightChange : CbProps,
     fallbackHeight : {JsUndefined, JsStr("50%")}]

NodeEnvs == {"development", "production"}

\* A default of a destructuring pattern: used when the field is undefined.
Default(v, d) == IF v.type = "undefined" THEN d ELSE v

\* ------------------------------------------------------------- the state
NoNode == 0           \* null as a DOM node; the div of instance i is node i
NoRef == 0            \* no ref passed; the ref object of instance i's owner is i
NoFn == [inst |-> 0, gen |-> 0, cb |-> NoCb]

VARIABLES
    env,              \* the host environment (window, document, viewport)
    nodeEnv,          \* process.env.NODE_ENV
    hasWarned,        \* the module-level flag
    listeners,        \* window's listener list: a set of <<type, function>>
    activeElement,    \* document.activeElement (NoNode: the body)
    phase,            \* per instance: unmounted, mounted, unmounting, destroyed, ssr
    height,           \* useState in useDynamicViewportHeight: the held height
    heightQueue,      \* its updates not yet processed by a render
    isClientRendered, \* useState in useIsClientRendered
    clientQueued,     \* setIsClientRendered(true) waiting for a render
    updateHeight,     \* the function useCallback holds: [inst, gen, cb]
    effectDeps,       \* the subscription effect's dependencies of the last render
    cleanup,          \* the function the subscription effect's cleanup removes
    pendingEffects,   \* passive effects of the last commit that have not run
    props,            \* the props of the last render
    rendered,         \* what the last render returned and did
    refGiven,         \* whether the owner passed a ref
    refCurrent,       \* ref.current of the owner's ref object
    calls,            \* the onHeightChange invocations the last step made
    updCalls,         \* updateHeight calls of the last step, and the last measurement
    addCalls,         \* window.addEventListener calls so far, per event type
    removeCalls,      \* window.removeEventListener calls so far, per event type
    warnCount,        \* console.warn calls so far
    cbChanges,        \* renders so far that changed the onHeightChange reference
    measured          \* the last direct call of measureViewportHeight: host and result

hostVars == << env, nodeEnv >>
hookVars ==
    << phase, height, heightQueue, isClientRendered, clientQueued, updateHeight,
       effectDeps, cleanup, pendingEffects, cbChanges >>
renderVars == << props, rendered, hasWarned, warnCount >>
listenerVars == << listeners, addCalls, removeCalls >>
refVars == << refGiven, refCurrent, activeElement >>
callVars == << calls, updCalls >>
vars == << hostVars, hookVars, renderVars, listenerVars, refVars, callVars, measured >>

\* -------------------------------------------------- the code, as operators
\* The updater passed to setHeight (lines 82-88), applied to prevHeight with
\* the newHeight and the onHeightChange its closure holds: the state it
\* returns and the onHeightChange invocations it makes.
\* (Two faulty updaters, for comparison: one without the prevHeight !==
\* newHeight test, one that returns prevHeight in both branches.)
UpdaterAlwaysNotifies(prevHeight, newHeight, cb) ==
    [state |-> newHeight,
     calls |-> IF cb # NoCb THEN << [cb |-> cb, arg |-> newHeight] >> ELSE << >>]

UpdaterKeepsPrev(prevHeight, newHeight, cb) ==
    [state |-> prevHeight,
     calls |-> IF prevHeight # newHeight /\ cb # NoCb
               THEN << [cb |-> cb, arg |-> newHeight] >> ELSE << >>]

Updater(prevHeight, newHeight, cb) ==
    IF prevHeight # newHeight
    THEN [state |-> newHeight,
          calls |-> IF cb # NoCb THEN << [cb |-> cb, arg |-> newHeight] >> ELSE << >>]
    ELSE [state |-> prevHeight, calls |-> << >>]

\* useCallback(fn, [onHeightChange]) (lines 80-89): the held function is kept
\* while the dependency is the same reference, else replaced by a new function.
\* (Without useCallback every render makes a new function.)
useCallbackFresh(held, cb) ==
    [inst |-> held.inst, gen |-> held.gen + 1, cb |-> cb]

useCallbackMemo(held, cb) ==
    IF held.cb = cb THEN held
    ELSE [inst |-> held.inst, gen |-> held.gen + 1, cb |-> cb]

\* The hook's return value (line 110).
\* (Without the readiness test it would return the held height.)
HookReturnHeight(ready, h) == h

HookReturn(ready, h) == IF ready THEN h ELSE JsNull

\* The condition of the development warning (line 42).
\* (Without the !hasWarned conjunct every such render would warn.)
ShouldWarnRepeatedly(nenv, warned, suppress, style) ==
    /\ nenv = "development"
    /\ ~Truthy(suppress)
    /\ Truthy(style.height)

ShouldWarn(nenv, warned, suppress, style) ==
    /\ nenv = "development"
    /\ ~warned
    /\ ~Truthy(suppress)
    /\ Truthy(style.height)

\* computedStyle (lines 50-53).
\* (With the spread after the height, a height of the consumer's would win.)
ComputedStyleKeepsHeight(style, h, fallback) ==
    [style EXCEPT !.height = IF style.height.type # "undefined" THEN style.height
                             ELSE IF Truthy(h) THEN Px(h) ELSE fallback]

ComputedStyle(style, h, fallback) ==
    [style EXCEPT !.height = IF Truthy(h) THEN Px(h) ELSE fallback]

\* The element the wrapper returns (line 55): the div, with the forwarded ref.
\* (A wrapper that is no forwardRef component would leave the ref out.)
WrapperElementDropsRef(ref, style, rest) ==
    [tag |-> "div", ref |-> NoRef, style |-> style, attrs |-> rest]

WrapperElement(ref, style, rest) ==
    [tag |-> "div", ref |-> ref, style |-> style, attrs |-> rest]

\* The events the subscription effect listens to (lines 98-101) and the ones
\* its cleanup removes (lines 104-105).
SubscribedTypes == {"resize", "orientationchange"}

\* (A cleanup that forgot the second removeEventListener.)
CleanupResizeOnly == {"resize"}

CleanupTypes == {"resize", "orientationchange"}

\* The readiness effect (lines 137-139) runs after the first commit only
\* (dependency list []); the subscription effect (lines 91-107) after every
\* commit whose [isClientRendered, updateHeight] differ from the last one's.
\* (An effect without a dependency list would run after every commit.)
SubEffectEveryRender(prevDeps, ready, fn) == TRUE

SubEffectChanged(prevDeps, ready, fn) ==
    prevDeps.isClient # ready \/ prevDeps.gen # fn.gen

\* The subscription effect's body goes on past line 92 when the
\* isClientRendered of its render is true.
\* (Without that line it would always go on.)
EffectProceedsAlways(isClient) == TRUE

EffectProceeds(isClient) == isClient

\* One render of DynamicViewportDiv (lines 32-56) given the hook's state
\* after its queues were processed: what it returns and what it does.
RenderOf(p, ref, h, ready, warned) ==
    LET suppress == Default(p.suppressWarnings, JsBool(FALSE))
        fallback == Default(p.fallbackHeight, JsStr("100vh"))
        hook == HookReturn(ready, h)
        warn == ShouldWarn(nodeEnv, warned, suppress, p.style)
    IN  [hook |-> hook, warnedBefore |-> warned, warn |-> warn,
         element |-> WrapperElement(ref, ComputedStyle(p.style, hook, fallback), p.rest)]

NoProps ==
    [style |-> [height |-> JsUndefined, color |-> JsUndefined],
     rest |-> NoRest,
     suppressWarnings |-> JsUndefined, onHeightChange |-> NoCb,
     fallbackHeight |-> JsUndefined]

NoRender ==
    [hook |-> JsNull, warnedBefore |-> FALSE, warn |-> FALSE,
     element |-> [tag |-> "div", ref |-> NoRef,
                  style |-> [height |-> JsUndefined, color |-> JsUndefined],
                  attrs |-> NoRest]]

\* React's processing of a hook's update queue in a render: an update that
\* was evaluated at its dispatch contributes its stored state, any other is
\* evaluated now, on the state its predecessors left.
RECURSIVE ProcessQueue(_, _)
ProcessQueue(h, q) ==
    IF q = << >> THEN [state |-> h, calls |-> << >>]
    ELSE LET u == Head(q)
             r == IF u.eager THEN [state |-> u.state, calls |-> << >>]
                  ELSE Updater(h, u.newHeight, u.cb)
             rest == ProcessQueue(r.state, Tail(q))
         IN  [state |-> rest.state, calls |-> r.calls \o rest.calls]

\* One call of updateHeight (lines 80-89) by function fn of an instance whose
\* held height is h and queue q: measure, then setHeight(updater). With eager
\* (possible only on an empty queue) React evaluates the updater at once and
\* drops the update when the state it returns is the current one.
UpdateHeightCall(fn, h, q, eager) ==
    LET newHeight == measureViewportHeight(env)
    IN  IF eager /\ q = << >>
        THEN LET u == Updater(h, newHeight, fn.cb)
             IN  [measure |-> newHeight,
                  calls |-> u.calls,
                  queue |-> IF u.state = h THEN << >>
                            ELSE << [eager |-> TRUE, state |-> u.state,
                                     newHeight |-> newHeight, cb |-> fn.cb] >>]
        ELSE [measure |-> newHeight,
              calls |-> << >>,
              queue |-> Append(q, [eager |-> FALSE, state |-> JsNull,
                                   newHeight |-> newHeight, cb |-> fn.cb])]


\* --------------------------------------------------------------- actions
NoCalls ==
    [n |-> 0, by |-> "none", last |-> JsUndefined, event |-> JsUndefined,
     arg |-> JsUndefined]

InitOver(envs, nodeEnvs) ==
    /\ env \in envs
    /\ nodeEnv \in nodeEnvs
    /\ hasWarned = FALSE
    /\ listeners = {}
    /\ activeElement = NoNode
    /\ phase = [i \in Instances |-> "unmounted"]
    /\ height = [i \in Instances |-> JsNull]
    /\ heightQueue = [i \in Instances |-> << >>]
    /\ isClientRendered = [i \in Instances |-> FALSE]
    /\ clientQueued = [i \in Instances |-> FALSE]
    /\ updateHeight = [i \in Instances |-> NoFn]
    /\ effectDeps = [i \in Instances |-> [isClient |-> FALSE, gen |-> 0]]
    /\ cleanup = [i \in Instances |-> NoFn]
    /\ pendingEffects = [i \in Instances |-> {}]
    /\ props = [i \in Instances |-> NoProps]
    /\ rendered = [i \in Instances |-> NoRender]
    /\ refGiven = [i \in Instances |-> FALSE]
    /\ refCurrent = [i \in Instances |-> NoNode]
    /\ calls = [i \in Instances |-> << >>]
    /\ updCalls = [i \in Instances |-> NoCalls]
    /\ addCalls = [i \in Instances |-> [t \in EventTypes |-> 0]]
    /\ removeCalls = [i \in Instances |-> [t \in EventTypes |-> 0]]
    /\ warnCount = 0
    /\ cbChanges = [i \in Instances |-> 0]
    /\ measured = [called |-> FALSE, again |-> FALSE, host |-> ServerEnv,
                   value |-> JsUndefined]

\* A step in which no instance but i calls onHeightChange or updateHeight,
\* and i makes the onHeightChange invocations cs and the updateHeight calls
\* whose measurements are ms (kind: "effect" or "notify"). updCalls keeps the
\* number of calls of the step, what made the last call, its measurement,
\* the last measurement made for a notification or, before any, for the
\* first run of the subscription effect, and the argument of the instance's
\* last onHeightChange invocation.
Calling(i, cs, ms, kind) ==
    /\ calls' = [j \in Instances |-> IF j = i THEN cs ELSE << >>]
    /\ updCalls' =
          [j \in Instances |->
              LET a == IF j = i /\ cs # << >> THEN cs[Len(cs)].arg ELSE updCalls[j].arg
              IN  IF j = i /\ ms # << >>
                  THEN [n |-> Len(ms),
                        by |-> kind,
                        last |-> ms[Len(ms)],
                        event |-> IF kind = "notify" \/ updCalls[j].last.type = "undefined"
                                  THEN ms[Len(ms)] ELSE updCalls[j].event,
                        arg |-> a]
                  ELSE [updCalls[j] EXCEPT !.n = 0, !.arg = a]]

Quiet == Calling(0, << >>, << >>, "none")

\* What a render leaves behind besides the hook state: the props, the output,
\* the module flag, the console.
RenderEffects(i, p, r) ==
    /\ props' = [props EXCEPT ![i] = p]
    /\ rendered' = [rendered EXCEPT ![i] = r]
    /\ hasWarned' = (hasWarned \/ r.warn)
    /\ warnCount' = warnCount + (IF r.warn THEN 1 ELSE 0)

\* root.render(<DynamicViewportDiv .../>) in a browser: the first render and
\* its commit (instances are numbered in the order they are first rendered).
\* useState's initializer measures (line 77); both effects are left to run;
\* the div is created and the ref attached to it.
Mount(i, p, withRef) ==
    /\ phase[i] = "unmounted"
    /\ \A j \in Instances : j < i => phase[j] # "unmounted"
    /\ env.hasWindow
    /\ LET h == measureViewportHeight(env)
           fn == [inst |-> i, gen |-> 0, cb |-> p.onHeightChange]
           r == RenderOf(p, IF withRef THEN i ELSE NoRef, h, FALSE, hasWarned)
       IN  /\ phase' = [phase EXCEPT ![i] = "mounted"]
           /\ height' = [height EXCEPT ![i] = h]
           /\ updateHeight' = [updateHeight EXCEPT ![i] = fn]
           /\ effectDeps' = [effectDeps EXCEPT ![i] = [isClient |-> FALSE, gen |-> 0]]
           /\ pendingEffects' = [pendingEffects EXCEPT ![i] = {"ready", "sub"}]
           /\ refGiven' = [refGiven EXCEPT ![i] = withRef]
           /\ refCurrent' = IF r.element.ref # NoRef
                            THEN [refCurrent EXCEPT ![r.element.ref] = i]
                            ELSE refCurrent
           /\ RenderEffects(i, p, r)
    /\ Quiet
    /\ UNCHANGED << hostVars, listenerVars, activeElement, heightQueue,
                    isClientRendered, clientQueued, cleanup, cbChanges, measured >>

\* The same component rendered where there is no window (a server): one
\* render, no commit, no effects.
ServerRender(i, p) ==
    /\ phase[i] = "unmounted"
    /\ \A j \in Instances : j < i => phase[j] # "unmounted"
    /\ ~env.hasWindow
    /\ LET h == measureViewportHeight(env)
           r == RenderOf(p, NoRef, h, FALSE, hasWarned)
       IN  /\ phase' = [phase EXCEPT ![i] = "ssr"]
           /\ height' = [height EXCEPT ![i] = h]
           /\ RenderEffects(i, p, r)
    /\ Quiet
    /\ UNCHANGED << hostVars, listenerVars, refVars, heightQueue, isClientRendered,
                    clientQueued, updateHeight, effectDeps, cleanup, pendingEffects,
                    cbChanges, measured >>

\* A later render of a mounted instance and its commit: caused by the parent
\* (byParent, with any props) or by the instance's own queued state updates
\* (with the props it has). React runs the passive effects of the previous
\* commit before it renders again.
Rerender(i, p, byParent) ==
    /\ phase[i] = "mounted"
    /\ pendingEffects[i] = {}
    /\ IF byParent
       THEN p.onHeightChange # updateHeight[i].cb => cbChanges[i] < MaxCbChanges
       ELSE /\ heightQueue[i] # << >> \/ clientQueued[i]
            /\ p = props[i]
    /\ LET q == ProcessQueue(height[i], heightQueue[i])
           ready == isClientRendered[i] \/ clientQueued[i]
           fn == useCallbackMemo(updateHeight[i], p.onHeightChange)
           r == RenderOf(p, IF refGiven[i] THEN i ELSE NoRef, q.state, ready, hasWarned)
       IN  /\ height' = [height EXCEPT ![i] = q.state]
           /\ heightQueue' = [heightQueue EXCEPT ![i] = << >>]
           /\ isClientRendered' = [isClientRendered EXCEPT ![i] = ready]
           /\ clientQueued' = [clientQueued EXCEPT ![i] = FALSE]
           /\ updateHeight' = [updateHeight EXCEPT ![i] = fn]
           /\ effectDeps' = [effectDeps EXCEPT ![i] = [isClient |-> ready, gen |-> fn.gen]]
           /\ pendingEffects' =
                  [pendingEffects EXCEPT ![i] =
                      IF SubEffectChanged(effectDeps[i], ready, fn) THEN {"sub"} ELSE {}]
           /\ RenderEffects(i, p, r)
           /\ Calling(i, q.calls, << >>, "none")
    /\ cbChanges' = [cbChanges EXCEPT ![i] =
                        @ + (IF p.onHeightChange # updateHeight[i].cb THEN 1 ELSE 0)]
    /\ UNCHANGED << hostVars, listenerVars, refVars, phase, cleanup, measured >>

\* The deletion of a mounted instance is committed: the div leaves the
\* document and the ref is detached; the effect cleanup is left to run.
Unmount(i) ==
    /\ phase[i] = "mounted"
    /\ pendingEffects[i] = {}
    /\ phase' = [phase EXCEPT ![i] = "unmounting"]
    /\ pendingEffects' = [pendingEffects EXCEPT ![i] = {"unmount"}]
    /\ refCurrent' = [refCurrent EXCEPT ![i] = NoNode]
    /\ activeElement' = IF activeElement = i THEN NoNode ELSE activeElement
    /\ Quiet
    /\ UNCHANGED << hostVars, renderVars, listenerVars, height, heightQueue,
                    isClientRendered, clientQueued, updateHeight, effectDeps, cleanup,
                    cbChanges, refGiven, measured >>

\* The listener list after the cleanup of the subscription effect (lines
\* 103-106) and after its setup (lines 98-101).
\* (A cleanup that cleared window's listeners of these types, whoever
\* registered them, would remove other instances' too.)
RemovedOfAll(ls, fn) == {l \in ls : l[1] \notin CleanupTypes}

Removed(ls, fn) == ls \ {<< t, fn >> : t \in CleanupTypes}
Added(ls, fn) == ls \cup {<< t, fn >> : t \in SubscribedTypes}

\* The passive effects of the last commit of instance i run: the cleanup of
\* the subscription effect when it is replaced or its owner was deleted, then
\* the readiness effect (line 138) and the subscription effect's setup
\* (lines 92-101), each with the values of the render that created it.
FlushEffects(i, eager) ==
    /\ pendingEffects[i] # {}
    /\ LET replaced == pendingEffects[i] \cap {"sub", "unmount"} # {}
           doCleanup == replaced /\ cleanup[i] # NoFn
           doSetup == "sub" \in pendingEffects[i] /\ EffectProceeds(effectDeps[i].isClient)
           fn == updateHeight[i]
           u == UpdateHeightCall(fn, height[i], heightQueue[i], eager)
           afterCleanup == IF doCleanup THEN Removed(listeners, cleanup[i]) ELSE listeners
       IN  /\ eager => doSetup /\ heightQueue[i] = << >>
           /\ listeners' = IF doSetup THEN Added(afterCleanup, fn) ELSE afterCleanup
           /\ removeCalls' =
                  [removeCalls EXCEPT ![i] =
                      [t \in EventTypes |->
                          @[t] + (IF doCleanup /\ t \in CleanupTypes THEN 1 ELSE 0)]]
           /\ addCalls' =
                  [addCalls EXCEPT ![i] =
                      [t \in EventTypes |->
                          @[t] + (IF doSetup /\ t \in SubscribedTypes THEN 1 ELSE 0)]]
           /\ cleanup' = [cleanup EXCEPT ![i] =
                             IF doSetup THEN fn ELSE IF replaced THEN NoFn ELSE @]
           /\ heightQueue' = [heightQueue EXCEPT ![i] = IF doSetup THEN u.queue ELSE @]
           /\ IF doSetup THEN Calling(i, u.calls, << u.measure >>, "effect") ELSE Quiet
    /\ clientQueued' = [clientQueued EXCEPT ![i] = @ \/ "ready" \in pendingEffects[i]]
    /\ phase' = [phase EXCEPT ![i] = IF @ = "unmounting" THEN "destroyed" ELSE @]
    /\ pendingEffects' = [pendingEffects EXCEPT ![i] = {}]
    /\ UNCHANGED << hostVars, renderVars, refVars, height, isClientRendered,
                    updateHeight, effectDeps, cbChanges, measured >>

\* The viewport changes: the browser chrome slides, the device rotates. The
\* height the host reports (the visual viewport's where there is one, else
\* the layout viewport's) becomes h.
ViewportChange(h) ==
    /\ env.hasWindow
    /\ measureViewportHeight(env) # JsNum(h)
    /\ env' = IF env.visualViewport.type # "undefined"
              THEN [env EXCEPT !.visualViewport = JsNum(h)]
              ELSE [env EXCEPT !.innerHeight = JsNum(h)]
    /\ Quiet
    /\ UNCHANGED << nodeEnv, hookVars, renderVars, listenerVars, refVars, measured >>

\* window dispatches an event of type t: every function registered for t is
\* called (updateHeight of its instance), oldest first. eagerFor is the set
\* of instances for which React takes the eager path; maxQueue bounds the
\* updates an instance has waiting.
Listening(t, i) == {l[2] : l \in {m \in listeners : m[1] = t /\ m[2].inst = i}}

RECURSIVE CallAll(_, _, _)
CallAll(fns, st, eager) ==
    IF fns = {} THEN st
    ELSE LET fn == CHOOSE f \in fns : \A g \in fns : f.gen <= g.gen
             u == UpdateHeightCall(fn, st.held, st.queue, eager)
         IN  CallAll(fns \ {fn},
                     [held |-> st.held, queue |-> u.queue, calls |-> st.calls \o u.calls,
                      measures |-> Append(st.measures, u.measure)],
                     eager)

Notify(t, eagerFor, maxQueue) ==
    /\ env.hasWindow
    /\ \A i \in Instances : Listening(t, i) # {} => Len(heightQueue[i]) < maxQueue
    /\ \A i \in eagerFor : Listening(t, i) # {} /\ heightQueue[i] = << >>
    /\ LET after == [i \in Instances |->
                        CallAll(Listening(t, i),
                                [held |-> height[i], queue |-> heightQueue[i],
                                 calls |-> << >>, measures |-> << >>],
                                i \in eagerFor)]
       IN  /\ heightQueue' = [i \in Instances |-> after[i].queue]
           /\ calls' = [i \in Instances |-> after[i].calls]
           /\ updCalls' =
                  [i \in Instances |->
                      IF after[i].measures = << >> THEN [updCalls[i] EXCEPT !.n = 0]
                      ELSE [n |-> Len(after[i].measures),
                            by |-> "notify",
                            last |-> after[i].measures[Len(after[i].measures)],
                            event |-> after[i].measures[Len(after[i].measures)],
                            arg |-> IF after[i].calls = << >> THEN updCalls[i].arg
                                    ELSE after[i].calls[Len(after[i].calls)].arg]]
    /\ UNCHANGED << hostVars, renderVars, listenerVars, refVars, phase, height,
                    isClientRendered, clientQueued, updateHeight, effectDeps, cleanup,
                    pendingEffects, cbChanges, measured >>

\* The owner calls ref.current?.focus() (the test "forwards ref").
Focus(i) ==
    /\ refGiven[i]
    /\ refCurrent[i] # NoNode
    /\ activeElement # refCurrent[i]
    /\ activeElement' = refCurrent[i]
    /\ Quiet
    /\ UNCHANGED << hostVars, hookVars, renderVars, listenerVars, refGiven, refCurrent,
                    measured >>

\* The steps of a program that mounts the instances of I with props of P,
\* with a ref or without (R), in a viewport whose heights are those of H,
\* where at most Q notifications reach an instance between two of its renders.
NextOver(I, P, R, H, Q) ==
    \/ \E i \in I, p \in P, withRef \in R : Mount(i, p, withRef)
    \/ \E i \in I, p \in P : ServerRender(i, p)
    \/ \E i \in I, p \in P, byParent \in BOOLEAN : Rerender(i, p, byParent)
    \/ \E i \in I : Unmount(i)
    \/ \E i \in I, eager \in BOOLEAN : FlushEffects(i, eager)
    \/ \E h \in H : ViewportChange(h)
    \/ \E t \in EventTypes, eagerFor \in SUBSET I : Notify(t, eagerFor, Q)

\* Where a run starts: on a server, in a browser without the visual viewport
\* API, in a browser with it (reporting less than the layout viewport).
StartEnvs ==
    {ServerEnv} \cup
    {e \in BrowserEnvs : /\ e.innerHeight = JsNum(MaxHeight)
                         /\ e.visualViewport \in {JsUndefined, JsNum(0)}}

\* One instance, every onHeightChange reference, plain style and options.
HookProps ==
    {p \in PropsSet : /\ p.style.height.type = "undefined"
                      /\ p.rest = NoRest
                      /\ p.suppressWarnings.type = "undefined"
                      /\ p.fallbackHeight.type = "undefined"}

Init == InitOver(StartEnvs, {"production"})
Next == NextOver({1}, HookProps, {FALSE}, Heights, MaxQueue)
Spec == Init /\ [][Next]_vars

\* The wrapper with every style and option, no onHeightChange, and a ref.
WrapperProps == {p \in PropsSet : p.onHeightChange = NoCb /\ p.rest = NoRest}

InitWrapper == InitOver({e \in StartEnvs : e.visualViewport.type = "undefined"}, NodeEnvs)
NextWrapper ==
    \/ NextOver({1}, WrapperProps, BOOLEAN, Heights, MaxQueue)
    \/ \E i \in Instances : Focus(i)
SpecWrapper == InitWrapper /\ [][NextWrapper]_vars

\* Two instances in one process, each with a style that has a height or
\* with none, in a development build; the viewport is collapsed (0) or full.
SharedProps ==
    {p \in WrapperProps : /\ p.style.height.type # "number"
                          /\ p.suppressWarnings.type = "undefined"
                          /\ p.fallbackHeight.type = "undefined"}

InitShared ==
    InitOver({e \in StartEnvs : e.visualViewport.type = "undefined"}, {"development"})
NextShared == NextOver({1, 2}, SharedProps, {FALSE}, {0, MaxHeight}, MaxQueueShared)
SpecShared == InitShared /\ [][NextShared]_vars

\* measureViewportHeight called directly (it is exported), in any host: with
\* or without window and document, innerHeight a number or not, with or
\* without the visual viewport API; the host changes between calls. The
\* record of a call says whether the host is the one of the call before.
\* (A function that kept a flag and measured on its first call only would
\* return null afterwards.)
MeasureOnce ==
    /\ measured' = [called |-> TRUE,
                    again |-> measured.called /\ measured.host = env,
                    host |-> env,
                    value |-> IF measured.called THEN JsNull
                              ELSE measureViewportHeight(env)]
    /\ UNCHANGED << hostVars, hookVars, renderVars, listenerVars, refVars, callVars >>

Measure ==
    /\ measured' = [called |-> TRUE,
                    again |-> measured.called /\ measured.host = env,
                    host |-> env,
                    value |-> measureViewportHeight(env)]
    /\ UNCHANGED << hostVars, hookVars, renderVars, listenerVars, refVars, callVars >>

HostChange(e) ==
    /\ e # env
    /\ env' = e
    /\ UNCHANGED << nodeEnv, hookVars, renderVars, listenerVars, refVars, callVars,
                    measured >>

InitMeasure == InitOver(AllEnvs, {"production"})
NextMeasure ==
    \/ Measure
    \/ \E e \in AllEnvs : HostChange(e)
SpecMeasure == InitMeasure /\ [][NextMeasure]_vars

\* Server rendering followed by the first render in the browser: instance 1
\* is the render on the server, instance 2 the component in the browser that
\* loads the page, in a viewport of any height, with or without the visual
\* viewport API.
Arrive(e) ==
    /\ phase[1] = "ssr"
    /\ ~env.hasWindow
    /\ HostChange(e)

InitHydrate == InitOver({ServerEnv}, {"production"})
NextHydrate ==
    \/ \E p \in WrapperProps : ServerRender(1, p)
    \/ \E e \in BrowserEnvs : Arrive(e)
    \/ \E p \in WrapperProps, withRef \in BOOLEAN : Mount(2, p, withRef)
    \/ \E eager \in BOOLEAN : FlushEffects(2, eager)
    \/ \E p \in WrapperProps, byParent \in BOOLEAN : Rerender(2, p, byParent)
SpecHydrate == InitHydrate /\ [][NextHydrate]_vars

\* The wrapper with every style, fallback and set of other attributes.
StyledProps ==
    {p \in PropsSet : /\ p.onHeightChange = NoCb
                      /\ p.suppressWarnings.type = "undefined"}

NextStyled == NextOver({1}, StyledProps, {FALSE}, Heights, MaxQueueShared)
SpecStyled == Init /\ [][NextStyled]_vars

LiveProps == {p \in HookProps : p.onHeightChange = "cbA"}

\* One instance with an onHeightChange that stays the same, and up to
\* MaxQueue notifications between two renders.
NextNotified == NextOver({1}, LiveProps, {FALSE}, Heights, MaxQueue)
SpecNotified == Init /\ [][NextNotified]_vars

\* One instance with an onHeightChange that stays the same, run by a React
\* that does what it has scheduled: the passive effects of a commit are run,
\* and a component with a state update waiting is rendered again.
NextLive == NextOver({1}, LiveProps, {FALSE}, Heights, MaxQueueShared)
Fairness ==
    /\ WF_vars(\E eager \in BOOLEAN : FlushEffects(1, eager))
    /\ WF_vars(Rerender(1, props[1], FALSE))
SpecLive == Init /\ [][NextLive]_vars /\ Fairness

\* ---------------------------------------------------------------- claims
\* The instance is ready and the subscription effect of its last commit has
\* run: it has registered its listeners.
Subscribed(i) == isClientRendered[i] /\ "sub" \notin pendingEffects[i]

\* The functions of instance i on window's listener list, for event type t.
Registered(i) == {l \in listeners : l[2].inst = i}

\* C1: for an instance whose onHeightChange reference never changed,
\* window.addEventListener has been called once for 'resize' and once for
\* 'orientationchange' as soon as the subscription effect has run, not before,
\* and never again, however many renders follow.
C1_ListenersAddedOnce ==
    \A i \in Instances : \A t \in EventTypes :
        cbChanges[i] = 0 => addCalls[i][t] = (IF Subscribed(i) THEN 1 ELSE 0)

\* A state after three renders at least (the mount, the readiness flip, and
\* one that processed a queued height update and called onHeightChange).
C1_Witness ==
    /\ cbChanges[1] = 0
    /\ phase[1] = "mounted"
    /\ \A t \in EventTypes : addCalls[1][t] = 1
    /\ calls[1] # << >>
    /\ updCalls[1].n = 0

\* C2: the step that runs the cleanup of an unmounted instance whose
\* listeners were registered calls removeEventListener once for 'resize' and
\* once for 'orientationchange', with the function that was registered, and
\* leaves no function of the instance on window; from then on no step calls
\* the instance's updateHeight, changes its held height or its update queue,
\* or invokes its onHeightChange.
C2_Teardown ==
    [][\A i \in Instances :
          /\ (phase[i] = "unmounting" /\ phase'[i] = "destroyed" /\ cleanup[i] # NoFn) =>
                /\ \A t \in EventTypes : removeCalls'[i][t] = removeCalls[i][t] + 1
                /\ Registered(i) = {<< t, cleanup[i] >> : t \in EventTypes}
                /\ {l \in listeners' : l[2].inst = i} = {}
          /\ phase[i] = "destroyed" =>
                /\ updCalls'[i].n = 0
                /\ calls'[i] = << >>
                /\ height'[i] = height[i]
                /\ heightQueue'[i] = heightQueue[i]
                /\ {l \in listeners' : l[2].inst = i} = {}
      ]_vars

\* Torn down, with a viewport that differs from the held height and an
\* onHeightChange to call: a notification that reached it would show.
C2_Witness ==
    /\ phase[1] = "destroyed"
    /\ \A t \in EventTypes : removeCalls[1][t] = 1 /\ addCalls[1][t] = 1
    /\ updateHeight[1].cb # NoCb
    /\ measureViewportHeight(env) # height[1]

\* C3: what the hook returned in the last render of an instance is null
\* while the readiness flag is false and the held height once it is true.
C3_NullUntilReady ==
    \A i \in Instances :
        phase[i] # "unmounted" =>
            rendered[i].hook = (IF isClientRendered[i] THEN height[i] ELSE JsNull)

\* The first render in a browser: the initial measurement is a number, the
\* hook returned null.
C3_Witness ==
    /\ phase[1] = "mounted"
    /\ ~isClientRendered[1]
    /\ height[1].type = "number"
    /\ rendered[1].hook = JsNull

\* The held height once the updates of queue q are applied to h, as the
\* update policy has it: each update leaves its measurement.
HeldAfter(h, q) ==
    IF q = << >> THEN h
    ELSE IF q[Len(q)].eager THEN q[Len(q)].state ELSE q[Len(q)].newHeight

\* The onHeightChange invocations the update policy asks for when a render
\* evaluates the waiting updates of q on h: one for each update whose
\* measurement differs from the height its predecessor left.
PolicyCalls(h, q) ==
    LET differs(k) == /\ ~q[k].eager
                      /\ q[k].cb # NoCb
                      /\ q[k].newHeight # HeldAfter(h, SubSeq(q, 1, k - 1))
        ks == SelectSeq([k \in 1..Len(q) |-> k], differs)
    IN  [n \in 1..Len(ks) |-> [cb |-> q[ks[n]].cb, arg |-> q[ks[n]].newHeight]]

\* C4: a notification delivered to a ready, mounted instance makes one
\* measurement m. Where it differs from the previously held height,
\* onHeightChange is invoked once with m and the held height becomes m; where
\* it is equal, onHeightChange is not invoked and no update is made. The
\* update is evaluated at the notification or by the next render, which
\* then makes exactly these invocations and holds the last measurement.
C4_UpdatePolicy ==
    [][\A i \in Instances :
          /\ (phase[i] = "mounted" /\ updCalls'[i].n > 0 /\ updCalls'[i].by = "notify") =>
                LET m == updCalls'[i].last
                    prev == HeldAfter(height[i], heightQueue[i])
                    cb == cleanup[i].cb
                    deferred == [eager |-> FALSE, state |-> JsNull, newHeight |-> m,
                                 cb |-> cb]
                IN  /\ updCalls'[i].n = 1
                    /\ \/ /\ heightQueue'[i] = Append(heightQueue[i], deferred)
                          /\ calls'[i] = << >>
                       \/ /\ m # prev
                          /\ calls'[i] = (IF cb # NoCb THEN << [cb |-> cb, arg |-> m] >>
                                          ELSE << >>)
                          /\ HeldAfter(height'[i], heightQueue'[i]) = m
                       \/ /\ m = prev
                          /\ calls'[i] = << >>
                          /\ heightQueue'[i] = heightQueue[i]
                          /\ height'[i] = height[i]
          /\ (phase[i] = "mounted" /\ heightQueue[i] # << >> /\ heightQueue'[i] = << >>) =>
                /\ calls'[i] = PolicyCalls(height[i], heightQueue[i])
                /\ height'[i] = HeldAfter(height[i], heightQueue[i])
      ]_vars

\* A notification has just been delivered, its measurement differed from the
\* held height, and onHeightChange was invoked with it.
C4_Witness ==
    /\ phase[1] = "mounted"
    /\ updCalls[1].n = 1
    /\ updCalls[1].by = "notify"
    /\ calls[1] = << [cb |-> "cbA", arg |-> updCalls[1].last] >>
    /\ height[1] # updCalls[1].last

\* The fallback of the last render of instance i.
FallbackOf(i) == Default(props[i].fallbackHeight, JsStr("100vh"))

\* C5: in the last render of the wrapper the style height of the div is
\* "<height>px" whenever the subscribed height is a number, 0 included, and
\* the fallback exactly when it is null.
C5_HeightOrFallback ==
    \A i \in Instances :
        phase[i] # "unmounted" =>
            rendered[i].element.style.height =
                (IF rendered[i].hook.type = "number" THEN Px(rendered[i].hook)
                 ELSE FallbackOf(i))

\* C6: hasWarned starts false and only ever goes from false to true, and
\* console.warn is called at most once, whatever the instances and renders.
C6_WarnsOnce ==
    /\ hasWarned = FALSE
    /\ [](warnCount <= 1)
    /\ [](hasWarned = (warnCount = 1))
    /\ [][hasWarned => hasWarned']_vars

\* Two instances with a style height: the first render of one warned, the
\* other rendered later and did not.
C6_Witness ==
    /\ warnCount = 1
    /\ rendered[1].warn
    /\ phase[2] = "mounted"
    /\ Truthy(props[2].style.height)
    /\ rendered[2].warnedBefore
    /\ ~rendered[2].warn

\* C7: measureViewportHeight returns null where window or document is
\* missing or innerHeight is no number; elsewhere the visual viewport's
\* height where there is a visual viewport and innerHeight where there is
\* none; always a number or null.
C7_Measurement ==
    measured.called =>
        LET e == measured.host
            v == measured.value
        IN  /\ v.type \in {"number", "null"}
            /\ (~e.hasWindow \/ ~e.hasDocument \/ e.innerHeight.type # "number") =>
                  v = JsNull
            /\ (e.hasWindow /\ e.hasDocument /\ e.innerHeight.type = "number") =>
                  v = (IF e.visualViewport.type # "undefined" THEN e.visualViewport
                       ELSE e.innerHeight)

\* A browser whose visual viewport is smaller than its layout viewport.
C7_Witness ==
    /\ measured.called
    /\ measured.host.hasWindow /\ measured.host.hasDocument
    /\ measured.host.innerHeight = JsNum(MaxHeight)
    /\ measured.host.visualViewport = JsNum(0)
    /\ measured.value = JsNum(0)

Settled(i) ==
    /\ phase[i] = "mounted"
    /\ Subscribed(i)
    /\ pendingEffects[i] = {}
    /\ heightQueue[i] = << >>

\* C8 as stated: the held height of a settled instance is the measurement of
\* the most recent notification or, before any, of the post-readiness
\* re-measurement.
C8_HeldIsLastNotified ==
    \A i \in Instances : Settled(i) => height[i] = updCalls[i].event

\* C8, amended: the held height of a settled instance is the measurement of
\* the most recent updateHeight call, be it for a notification, for the
\* post-readiness re-measurement or for the re-measurement of a subscription
\* effect that ran again after onHeightChange changed; it is never older than
\* the latest notification.
C8_HeldIsLastMeasured ==
    \A i \in Instances :
        Settled(i) =>
            /\ height[i] = updCalls[i].last
            /\ updCalls[i].by = "notify" => height[i] = updCalls[i].event

\* Settled after a re-subscription measured something newer than the last
\* notification had.
C8_Witness ==
    /\ Settled(1)
    /\ cbChanges[1] = 1
    /\ updCalls[1].by = "effect"
    /\ updCalls[1].last # updCalls[1].event
    /\ height[1] = updCalls[1].last

\* C9: the last render of the wrapper warned exactly when the build is a
\* development build, hasWarned was false, suppressWarnings is not set and
\* the style specifies a height (any value, 0 included); a render that
\* warned has set hasWarned.
C9_WarnCondition ==
    \A i \in Instances :
        phase[i] # "unmounted" =>
            /\ rendered[i].warn =
                  (/\ nodeEnv = "development"
                   /\ ~rendered[i].warnedBefore
                   /\ ~Truthy(props[i].suppressWarnings)
                   /\ props[i].style.height.type # "undefined")
            /\ rendered[i].warn => hasWarned

\* C10: a ref passed to the wrapper holds the div of the instance while it
\* is mounted and null once it is unmounted; the element focused through the
\* ref is that div.
C10_RefForwarded ==
    /\ \A i \in Instances :
          refGiven[i] => refCurrent[i] = (IF phase[i] = "mounted" THEN i ELSE NoNode)
    /\ activeElement # NoNode =>
          /\ phase[activeElement] = "mounted"
          /\ refCurrent[activeElement] = activeElement

\* Mounted with a ref, and focus() through the ref has focused the div.
C10_Witness ==
    /\ phase[1] = "mounted"
    /\ refGiven[1]
    /\ refCurrent[1] = 1
    /\ activeElement = 1

\* The listeners of instance i for event type t.
RegisteredFor(i, t) == {l \in Registered(i) : l[1] = t}

\* C12: an instance never has two listeners for one event type, and once
\* it is ready and the subscription effect of its last commit has run it has
\* exactly one for each, the function of its last render. A step removes
\* listeners of an instance only as the teardown of its unmount (nothing is
\* registered again) or because the onHeightChange of the registered function
\* is not the one of the last render, and then removes one per type and
\* registers one per type; a step registers listeners without removing any
\* only when the instance had none.
C12_ResubscribeOnCallbackChange ==
    /\ [](\A i \in Instances : \A t \in EventTypes :
            /\ Cardinality(RegisteredFor(i, t)) <= 1
            /\ (phase[i] = "mounted" /\ Subscribed(i)) =>
                  RegisteredFor(i, t) = {<< t, updateHeight[i] >>})
    /\ [][\A i \in Instances :
            /\ removeCalls'[i] # removeCalls[i] =>
                  /\ \A t \in EventTypes : removeCalls'[i][t] = removeCalls[i][t] + 1
                  /\ \/ /\ phase'[i] = "destroyed"
                        /\ addCalls'[i] = addCalls[i]
                        /\ {l \in listeners' : l[2].inst = i} = {}
                     \/ /\ phase'[i] = "mounted"
                        /\ cleanup[i].cb # updateHeight[i].cb
                        /\ \A t \in EventTypes : addCalls'[i][t] = addCalls[i][t] + 1
            /\ addCalls'[i] # addCalls[i] =>
                  /\ \A t \in EventTypes : addCalls'[i][t] = addCalls[i][t] + 1
                  /\ Registered(i) = {} \/ removeCalls'[i] # removeCalls[i]
          ]_vars

\* Subscribed again after one change of onHeightChange, and rendered since:
\* two registrations and one removal per type, one listener per type.
C12_Witness ==
    /\ phase[1] = "mounted"
    /\ Subscribed(1)
    /\ cbChanges[1] = 1
    /\ props[1].onHeightChange = "cbB"
    /\ \A t \in EventTypes :
          /\ addCalls[1][t] = 2
          /\ removeCalls[1][t] = 1
          /\ RegisteredFor(1, t) = {<< t, updateHeight[1] >>}
    /\ calls[1] # << >>

\* The height instance i holds once its waiting updates are applied.
Effective(i) == HeldAfter(height[i], heightQueue[i])

\* A step of instance i that invokes onHeightChange does so for an update
\* made in the step itself, or is a render evaluating the waiting updates.
CallsAreForUpdates(i) ==
    calls'[i] # << >> =>
        \/ /\ updCalls'[i].n > 0
           /\ HeldAfter(height'[i], heightQueue'[i]) # Effective(i)
        \/ /\ heightQueue[i] # << >> /\ heightQueue'[i] = << >>
           /\ calls'[i] = PolicyCalls(height[i], heightQueue[i])

\* C13 as stated: the held height of an instance (its waiting updates
\* applied) changes only in a step that calls updateHeight for a notification
\* or for the first run of the subscription effect, and onHeightChange is
\* invoked only for such a change; no other step, and not the effect that
\* runs again after onHeightChange changed, changes the one or invokes the
\* other.
C13_ChangesByNotificationOrFirst ==
    [][\A i \in Instances :
          phase[i] # "unmounted" =>
              /\ HeldAfter(height'[i], heightQueue'[i]) # Effective(i) =>
                    /\ updCalls'[i].n > 0
                    /\ updCalls'[i].by = "notify" \/ cleanup[i] = NoFn
              /\ CallsAreForUpdates(i)
      ]_vars

\* C13, amended: updateHeight is called for a notification, for the first
\* run of the subscription effect, or for its run after onHeightChange
\* changed, and for nothing else; the held height (its waiting updates
\* applied) changes only in a step that calls updateHeight, and onHeightChange
\* is invoked only for such a change. A render that changes nothing but
\* unrelated props, and the readiness flip, change neither.
C13_ChangesByUpdateHeight ==
    [][\A i \in Instances :
          phase[i] # "unmounted" =>
              /\ updCalls'[i].n > 0 =>
                    \/ updCalls'[i].by = "notify"
                    \/ cleanup[i] = NoFn
                    \/ cleanup[i].cb # updateHeight[i].cb
              /\ HeldAfter(height'[i], heightQueue'[i]) # Effective(i) =>
                    updCalls'[i].n > 0
              /\ CallsAreForUpdates(i)
      ]_vars

\* The effect that ran again after onHeightChange changed has measured a
\* height that is not the held one and invoked the new onHeightChange.
C13_Witness ==
    /\ phase[1] = "mounted"
    /\ cbChanges[1] = 1
    /\ \A t \in EventTypes : addCalls[1][t] = 2
    /\ updCalls[1].n = 1
    /\ updCalls[1].by = "effect"
    /\ calls[1] = << [cb |-> updateHeight[1].cb, arg |-> updCalls[1].last] >>
    /\ height[1] # updCalls[1].last

\* C14: the readiness flag is false in the first render; it becomes true in
\* one render, the one that follows the post-mount effect's
\* setIsClientRendered(true), and stays true; that effect runs once. While the
\* flag is false the instance has registered no listener and the subscription
\* effect has called updateHeight not once. The effect of the render that
\* flipped the flag registers one listener per type and measures once.
C14_ReadinessFlip ==
    /\ [](\A i \in Instances :
            /\ ~isClientRendered[i] =>
                  /\ Registered(i) = {}
                  /\ \A t \in EventTypes : addCalls[i][t] = 0
                  /\ updCalls[i].last.type = "undefined"
            /\ isClientRendered[i] =>
                  ~clientQueued[i] /\ "ready" \notin pendingEffects[i])
    /\ [][\A i \in Instances :
            /\ (phase[i] = "unmounted" /\ phase'[i] # "unmounted") =>
                  ~isClientRendered'[i] /\ rendered'[i].hook = JsNull
            /\ isClientRendered[i] => isClientRendered'[i]
            /\ (~clientQueued[i] /\ clientQueued'[i]) =>
                  "ready" \in pendingEffects[i] /\ ~isClientRendered[i]
            /\ (~isClientRendered[i] /\ isClientRendered'[i]) =>
                  /\ clientQueued[i]
                  /\ pendingEffects'[i] = {"sub"}
            /\ (isClientRendered[i] /\ cleanup[i] = NoFn /\ pendingEffects[i] = {"sub"}
                   /\ pendingEffects'[i] = {}) =>
                  /\ \A t \in EventTypes : addCalls'[i][t] = 1
                  /\ {l \in listeners' : l[2].inst = i} =
                        {<< t, updateHeight[i] >> : t \in EventTypes}
                  /\ updCalls'[i].n = 1 /\ updCalls'[i].by = "effect"
          ]_vars

\* The effect of the render that flipped the flag has just run.
C14_Witness ==
    /\ phase[1] = "mounted"
    /\ isClientRendered[1]
    /\ cbChanges[1] = 0
    /\ pendingEffects[1] = {}
    /\ \A t \in EventTypes : addCalls[1][t] = 1 /\ removeCalls[1][t] = 0
    /\ updCalls[1].n = 1
    /\ updCalls[1].by = "effect"
    /\ calls[1] = << >>

\* C15: with the same props, the render on a server and the first render in
\* a browser, whatever its viewport, both have the hook return null and
\* give the div the fallback as style height, and the same style altogether.
C15_FirstRenderAgrees ==
    (/\ phase[1] = "ssr"
     /\ phase[2] = "mounted" /\ ~isClientRendered[2]
     /\ props[1] = props[2]) =>
        /\ rendered[1].hook = JsNull
        /\ rendered[2].hook = JsNull
        /\ rendered[1].element.style.height = FallbackOf(1)
        /\ rendered[2].element.style.height = FallbackOf(1)
        /\ rendered[1].element.style = rendered[2].element.style

\* Rendered on the server and first rendered in a browser whose viewport
\* measures a height that would show as "1px".
C15_Witness ==
    /\ phase[1] = "ssr"
    /\ phase[2] = "mounted" /\ ~isClientRendered[2]
    /\ props[1] = props[2]
    /\ props[2].fallbackHeight = JsStr("50%")
    /\ height[1] = JsNull
    /\ height[2] = JsNum(MaxHeight)
    /\ rendered[2].element.style.height = JsStr("50%")

\* Instance i is ready, has both listeners, and its last render returned the
\* height it holds, a number: the last measurement made.
ReadyAndMeasured(i) ==
    /\ Settled(i)
    /\ Registered(i) = {<< t, updateHeight[i] >> : t \in EventTypes}
    /\ rendered[i].hook.type = "number"
    /\ rendered[i].hook = height[i]
    /\ height[i] = updCalls[i].last

\* C16: a mounted instance, unless it is unmounted, comes to be ready with
\* both listeners registered and the hook returning the height last
\* measured, a number. The subscription effect that runs once it is ready
\* measures the viewport as it is then; where that is not the height of
\* the initial measurement the update to it is made, with onHeightChange
\* invoked with it at once or by the render that follows, which comes.
C16_EventuallyReady ==
    /\ (phase[1] = "mounted") ~> (phase[1] # "mounted" \/ ReadyAndMeasured(1))
    /\ (phase[1] = "mounted" /\ heightQueue[1] # << >>) ~>
          (phase[1] # "mounted" \/ heightQueue[1] = << >>)
    /\ [][\A i \in Instances :
            /\ (phase[i] = "mounted" /\ cleanup[i] = NoFn /\ updCalls'[i].n > 0
                   /\ updCalls'[i].by = "effect") =>
                  LET m == measureViewportHeight(env)
                      cb == updateHeight[i].cb
                  IN  /\ isClientRendered[i]
                      /\ updCalls'[i].last = m
                      /\ HeldAfter(height'[i], heightQueue'[i]) = m
                      /\ m # height[i] =>
                            \/ calls'[i] = << [cb |-> cb, arg |-> m] >>
                            \/ heightQueue'[i] =
                                  << [eager |-> FALSE, state |-> JsNull,
                                      newHeight |-> m, cb |-> cb] >>
                      /\ m = height[i] => calls'[i] = << >>
            /\ (phase[i] = "mounted" /\ heightQueue[i] # << >>
                   /\ heightQueue'[i] = << >>) =>
                  /\ calls'[i] = PolicyCalls(height[i], heightQueue[i])
                  /\ height'[i] = HeldAfter(height[i], heightQueue[i])
          ]_vars

\* Ready and measured, at a height that is not the one the initial
\* measurement gave: the render after the readiness effect has just invoked
\* onHeightChange with it, no notification having been delivered.
C16_Witness ==
    /\ ReadyAndMeasured(1)
    /\ updCalls[1].by = "effect"
    /\ calls[1] = << [cb |-> "cbA", arg |-> height[1]] >>
    /\ measureViewportHeight(env) = height[1]

\* What instance i holds: the state of its hooks and its listeners.
OwnState(i) ==
    << phase[i], height[i], isClientRendered[i], clientQueued[i], updateHeight[i],
       cleanup[i], pendingEffects[i] >>

\* C17: window has as many listeners of each type as there are instances
\* that are ready with their subscription effect run and not torn down. A
\* notification calls updateHeight of every instance that has listeners,
\* once, and each one's update is made on its own height. A step of one
\* instance (a render, its effects, its unmount and teardown) leaves the
\* other instances' state, waiting updates and listeners as they were; the
\* teardown removes the two listeners of its instance.
C17_InstancesIndependent ==
    /\ [](\A t \in EventTypes :
            Cardinality({l \in listeners : l[1] = t}) =
                Cardinality({i \in Instances :
                                /\ phase[i] \in {"mounted", "unmounting"}
                                /\ Subscribed(i)}))
    /\ [][\A i \in Instances :
            /\ (\E j \in Instances : updCalls'[j].n > 0 /\ updCalls'[j].by = "notify") =>
                  LET m == measureViewportHeight(env)
                  IN  /\ Registered(i) # {} <=> updCalls'[i].n = 1
                      /\ Registered(i) = {} => updCalls'[i].n = 0
                      /\ height'[i] = height[i]
                      /\ updCalls'[i].n = 1 =>
                            /\ updCalls'[i].last = m
                            /\ HeldAfter(height'[i], heightQueue'[i]) = m
                            /\ m = Effective(i) =>
                                  \/ heightQueue'[i] = heightQueue[i]
                                  \/ Len(heightQueue'[i]) = Len(heightQueue[i]) + 1
            /\ OwnState(i)' # OwnState(i) =>
                  \A j \in Instances \ {i} :
                      /\ OwnState(j)' = OwnState(j)
                      /\ heightQueue'[j] = heightQueue[j]
                      /\ {l \in listeners' : l[2].inst = j} = Registered(j)
            /\ removeCalls'[i] # removeCalls[i] =>
                  /\ Cardinality(Registered(i)) = 2
                  /\ listeners \ listeners' = Registered(i)
          ]_vars

\* Two instances were subscribed; the first is torn down, the second still
\* has its two listeners and has just been notified.
C17_Witness ==
    /\ phase[1] = "destroyed"
    /\ \A t \in EventTypes : removeCalls[1][t] = 1
    /\ phase[2] = "mounted"
    /\ Cardinality(Registered(2)) = 2
    /\ Cardinality(listeners) = 2
    /\ updCalls[2].n = 1
    /\ updCalls[2].by = "notify"
    /\ height[1] # height[2]

\* C18: the div of the last render has the consumer's color (every style
\* property but height) and the consumer's other attributes as they were
\* given; its style height is the computed one, whatever height the
\* consumer's style had, and is not that height.
C18_StyleAndAttributesKept ==
    \A i \in Instances :
        phase[i] # "unmounted" =>
            LET el == rendered[i].element
            IN  /\ el.tag = "div"
                /\ el.style.color = props[i].style.color
                /\ el.attrs = props[i].rest
                /\ el.style.height =
                      (IF Truthy(rendered[i].hook) THEN Px(rendered[i].hook)
                       ELSE FallbackOf(i))
                /\ props[i].style.height.type # "undefined" =>
                      el.style.height # props[i].style.height

\* A ready instance given a style with a height and a color, and other
\* attributes: the div has the measured height.
C18_Witness ==
    /\ phase[1] = "mounted"
    /\ isClientRendered[1]
    /\ props[1].style = [height |-> JsStr("50px"), color |-> JsStr("red")]
    /\ props[1].rest.className = JsStr("full")
    /\ rendered[1].element.style.height = JsStr("1px")
    /\ rendered[1].element.style.color = JsStr("red")
    /\ rendered[1].element.attrs.id = JsStr("app")

\* C19: every onHeightChange invocation a step makes for a mounted instance
\* is of the reference its last committed render was given: a reference
\* that a committed render has replaced is not invoked again, and what is
\* reported after that commit is reported to the new one.
C19_ReplacedCallbackSilent ==
    [][\A i \in Instances :
          phase[i] = "mounted" =>
              \A k \in 1..Len(calls'[i]) : calls'[i][k].cb = props[i].onHeightChange
      ]_vars

\* The heights an instance comes to hold, one after the other, when a render
\* evaluates the waiting updates of q on h: the measurement of every update
\* that differs from what its predecessor left.
ChangesOf(h, q) ==
    LET changed(k) == /\ ~q[k].eager
                      /\ HeldAfter(h, SubSeq(q, 1, k)) # HeldAfter(h, SubSeq(q, 1, k - 1))
        ks == SelectSeq([k \in 1..Len(q) |-> k], changed)
    IN  [n \in 1..Len(ks) |-> HeldAfter(h, SubSeq(q, 1, ks[n]))]

\* C20: for an instance with an onHeightChange, the invocations of a step
\* are one for every change of the held height the step makes (at the
\* dispatch of an update, or in the render that evaluates the waiting ones,
\* several of them too), each with the height held right after its change;
\* no invocation has the argument of the invocation before it, in the step
\* or in an earlier one.
C20_OneCallPerChange ==
    [][\A i \in Instances :
          (phase[i] \in {"mounted", "unmounting"} /\ props[i].onHeightChange # NoCb) =>
              LET cs == calls'[i]
                  args == [k \in 1..Len(cs) |-> cs[k].arg]
                  inRender == heightQueue[i] # << >> /\ heightQueue'[i] = << >>
              IN  /\ inRender => args = ChangesOf(height[i], heightQueue[i])
                  /\ ~inRender =>
                        \/ /\ args = << HeldAfter(height'[i], heightQueue'[i]) >>
                           /\ HeldAfter(height'[i], heightQueue'[i]) # Effective(i)
                           /\ heightQueue'[i][Len(heightQueue'[i])].eager
                        \/ /\ args = << >>
                           /\ \/ HeldAfter(height'[i], heightQueue'[i]) = Effective(i)
                              \/ ~heightQueue'[i][Len(heightQueue'[i])].eager
                  /\ \A k \in 1..Len(cs) :
                        /\ cs[k].cb = "cbA"
                        /\ args[k] # (IF k = 1 THEN updCalls[i].arg ELSE args[k - 1])
                  /\ cs # << >> => args[Len(cs)] = HeldAfter(height'[i], heightQueue'[i])
      ]_vars

\* A render has evaluated two waiting updates and invoked onHeightChange
\* for each, after an earlier invocation.
C20_Witness ==
    /\ phase[1] = "mounted"
    /\ Len(calls[1]) = 2
    /\ calls[1][1].arg # calls[1][2].arg
    /\ calls[1][2].arg = height[1]
    /\ heightQueue[1] = << >>

====
